---------------------------- MODULE Spec2Model ----------------------------
(***************************************************************************)
(* PPE Detection App (src/app.py): a Streamlit script that loads a cached  *)
(* detector, saves an uploaded image to /tmp, runs the detector, shows the *)
(* annotated image, lists the detections in three buckets with a summary,  *)
(* and removes the input scratch file.                                     *)
(*                                                                         *)
(* The script is re-executed from the top by every session on every        *)
(* interaction; sessions run in threads of one process and share the       *)
(* st.cache_resource cache, the clock and the /tmp file system.            *)
(***************************************************************************)
EXTENDS Integers, Sequences, FiniteSets, TLC

(***************************************************************************)
(* Bounds of the model.                                                    *)
(***************************************************************************)
\* script runs (re-executions), over all sessions
MaxRuns == 2
\* int(time.time()) ranges over 0..MaxClock: the seconds that pass while the
\* process is watched
MaxClock == 0
\* rows of a Detection Set over the whole label vocabulary (formatter)
MaxRows == 2
\* rows of a Detection Set over the summary vocabulary (formatter)
MaxSummaryRows == 6

None == "None"

(***************************************************************************)
(* Labels.  A label is a Python str; Chars gives its characters, which is  *)
(* what str.startswith reads.                                              *)
(***************************************************************************)
Chars(label) ==
  CASE label = "Hardhat"        -> <<"H","a","r","d","h","a","t">>
    [] label = "Mask"           -> <<"M","a","s","k">>
    [] label = "Safety Vest"    -> <<"S","a","f","e","t","y"," ","V","e","s","t">>
    [] label = "NO-Hardhat"     -> <<"N","O","-","H","a","r","d","h","a","t">>
    [] label = "NO-Mask"        -> <<"N","O","-","M","a","s","k">>
    [] label = "NO-Safety Vest" -> <<"N","O","-","S","a","f","e","t","y"," ","V","e","s","t">>
    [] label = "Person"         -> <<"P","e","r","s","o","n">>
    [] label = "Safety Cone"    -> <<"S","a","f","e","t","y"," ","C","o","n","e">>
    [] label = "Machinery"      -> <<"M","a","c","h","i","n","e","r","y">>
    [] label = "Vehicle"        -> <<"V","e","h","i","c","l","e">>
    [] label = "NO-Gloves"      -> <<"N","O","-","G","l","o","v","e","s">>
    [] label = "Gloves"         -> <<"G","l","o","v","e","s">>
    [] label = "NO"             -> <<"N","O">>
    [] label = "person"         -> <<"p","e","r","s","o","n">>

\* the labels of color_map, and labels a detector's class list may also hold
TableLabels ==
  {"Hardhat", "Mask", "Safety Vest", "NO-Hardhat", "NO-Mask", "NO-Safety Vest",
   "Person", "Safety Cone", "Machinery", "Vehicle"}
OtherLabels == {"NO-Gloves", "Gloves", "NO", "person"}
Labels == TableLabels \cup OtherLabels

\* confidences in units of 1/10000 (none lies on a rounding boundary)
Confidences == {8712, 4239}

\* str.startswith
StartsWith(s, prefix) ==
  /\ Len(s) >= Len(prefix)
  /\ \A i \in 1..Len(prefix) : s[i] = prefix[i]

\* color_map.get(label, "white")
ColorDefaultYellow(label) ==
  CASE label \in {"Hardhat", "Mask", "Safety Vest"} -> "green"
    [] label \in {"NO-Hardhat", "NO-Mask", "NO-Safety Vest"} -> "red"
    [] label \in {"Person", "Safety Cone", "Machinery", "Vehicle"} -> "yellow"
    [] OTHER -> "yellow"
ColorOf(label) ==
  CASE label \in {"Hardhat", "Mask", "Safety Vest"} -> "green"
    [] label \in {"NO-Hardhat", "NO-Mask", "NO-Safety Vest"} -> "red"
    [] label \in {"Person", "Safety Cone", "Machinery", "Vehicle"} -> "yellow"
    [] OTHER -> "white"

\* f"{conf:.2f}": the confidence in hundredths
Round2(conf) == (conf + 50) \div 100

Safe == "Safe Equipment"
Other == "Other Objects"
Unsafe == "Unsafe Conditions"
\* the keys of sections, in insertion order
Titles == <<Safe, Other, Unsafe>>

\* the if / elif / else that picks the bucket of a row
BucketByColor(label) ==
  IF ColorOf(label) = "red" THEN Unsafe
  ELSE IF label \in {"Hardhat", "Mask", "Safety Vest"} THEN Safe
  ELSE Other
BucketOf(label) ==
  IF StartsWith(Chars(label), <<"N","O","-">>) THEN Unsafe
  ELSE IF label \in {"Hardhat", "Mask", "Safety Vest"} THEN Safe
  ELSE Other

\* one rendered element of the page
Item(kind, color, label, num) ==
  [kind |-> kind, color |-> color, label |-> label, num |-> num]

\* the span of one detection
TextOf(row) == Item("detail", ColorOf(row.name), row.name, Round2(row.confidence))

EmptySections == [t \in {Safe, Other, Unsafe} |-> <<>>]

\* the loop over detected_objects.iterrows()
RECURSIVE FillSections(_, _)
FillSections(rows, sections) ==
  IF rows = <<>> THEN sections
  ELSE LET row == Head(rows)
           b == BucketOf(row.name)
       IN FillSections(Tail(rows),
                       [sections EXCEPT ![b] = Append(@, TextOf(row))])


\* number of rows with the given label
RECURSIVE CountOf(_, _)
CountOf(rows, label) ==
  IF rows = <<>> THEN 0
  ELSE (IF Head(rows).name = label THEN 1 ELSE 0) + CountOf(Tail(rows), label)

\* the distinct labels of the rows
NamesOf(rows) == {rows[i].name : i \in 1..Len(rows)}

\* the orders in which the distinct labels can stand before the sort:
\* Series.sort_values uses an unstable sort, so labels of equal count may
\* come out in any order
Orders(S) ==
  {f \in [1..Cardinality(S) -> S] : \A i, j \in 1..Cardinality(S) : f[i] = f[j] => i = j}

\* insert pair p behind every pair whose count is at least p's
RECURSIVE InsertDesc(_, _)
InsertDesc(p, sorted) ==
  IF sorted = <<>> THEN <<p>>
  ELSE IF Head(sorted).count >= p.count
       THEN <<Head(sorted)>> \o InsertDesc(p, Tail(sorted))
       ELSE <<p>> \o sorted

RECURSIVE SortAscending(_)
SortAscending(pairs) ==
  IF pairs = <<>> THEN <<>>
  ELSE LET rest == SortAscending(Tail(pairs))
           p == Head(pairs)
           lo == SelectSeq(rest, LAMBDA q : q.count <= p.count)
           hi == SelectSeq(rest, LAMBDA q : q.count > p.count)
       IN lo \o <<p>> \o hi
\* sort_values(ascending=False) inside value_counts
RECURSIVE SortDescending(_)
SortDescending(pairs) ==
  IF pairs = <<>> THEN <<>>
  ELSE InsertDesc(Head(pairs), SortDescending(Tail(pairs)))

\* detected_objects["name"].value_counts(), the labels met in the given order
ValueCounts(rows, order) ==
  SortDescending([i \in 1..Len(order) |->
                    [name |-> order[i], count |-> CountOf(rows, order[i])]])

\* the markdown of the three sections: a heading per non-empty section, then
\* its spans
RECURSIVE SectionItems(_, _)
SectionItems(titles, sections) ==
  IF titles = <<>> THEN <<>>
  ELSE LET t == Head(titles)
       IN (IF sections[t] # <<>>
           THEN <<Item("heading", "", t, 0)>> \o sections[t]
           ELSE <<>>)
          \o SectionItems(Tail(titles), sections)

\* one summary line per entry of counts
SummaryItems(counts) ==
  [i \in 1..Len(counts) |->
     Item("summary", ColorOf(counts[i].name), counts[i].name, counts[i].count)]

\* len(detected_objects) == 0
IsEmptyNever(rows) == FALSE
IsEmpty(rows) == Len(rows) = 0

\* what the if / else on detected_objects adds to the page
Details(rows, sections, counts) ==
  IF IsEmpty(rows) THEN <<Item("warning", "", "No objects detected.", 0)>>
  ELSE <<Item("subheader", "", "Detection Details", 0)>>
       \o SectionItems(Titles, sections)
       \o <<Item("rule", "", "---", 0), Item("subheader", "", "Detection Summary", 0)>>
       \o SummaryItems(counts)


(***************************************************************************)
(* The process: sessions, the resource cache, the clock, the file system.  *)
(***************************************************************************)
Sessions == {1, 2}
\* uploaded_file.name
UploadNames == {"a.jpg"}
\* weights/best.pt, best.pt, yolov5s.pt, in the order of candidates
Candidates == <<1, 2, 3>>

VARIABLES
  weights,      \* the candidates that exist on disk
  cache,        \* st.cache_resource's entry for load_model: the detector, if any
  lock,         \* the session computing load_model under the cache's lock, or 0
  constructed,  \* how many detectors torch.hub.load has built
  clock,        \* int(time.time()) as last read
  runs,         \* script runs started so far
  files,        \* /tmp/temp_*: [path, owner], owner the run that wrote it
  dirs,         \* /tmp/detection_<t>: whether it exists, its files by mtime
  pc,           \* where each session's script run stands
  status,       \* how each session's latest run ended
  req,          \* the number of each session's latest run
  loc,          \* the script's names in each session's run: model,
                \* uploaded_file, img_path, results_dir, results,
                \* detected_img_path, detected_objects, sections, counts,
                \* and in bound the names assigned so far
  rendered,     \* what the run has put on the session's page
  unlink        \* what img_path.unlink did in the run

shared == <<weights, cache, lock, constructed, clock, runs, files, dirs>>
vars == <<weights, cache, lock, constructed, clock, runs, files, dirs, pc, status,
          req, loc, rendered, unlink>>

\* the Detection Sets of at most n rows over the given labels and confidences
DetectionSets(labels, confs, n) ==
  UNION {[1..k -> [name : labels, confidence : confs]] : k \in 0..n}

\* what the detector returns in the pipeline: nothing, or three detections
DetectorOutputs ==
  {<<>>,
   <<[name |-> "NO-Gloves", confidence |-> 8712],
     [name |-> "Hardhat", confidence |-> 4239],
     [name |-> "Hardhat", confidence |-> 8712]>>}

\* values of names that are not bound (or are None)
NoDetector == [id |-> 0, weight |-> 0]
NoPath == [t |-> -1, name |-> None]
NoDir == -1
NoFile == [path |-> NoPath, owner |-> 0]
NoRows == <<>>

\* the script's names before the script has bound them
NoLocals ==
  [model |-> NoDetector, uploaded_file |-> None, img_path |-> NoPath,
   results_dir |-> NoDir, results |-> NoRows, detected_img_path |-> NoFile,
   detected_objects |-> NoRows, sections |-> EmptySections, counts |-> <<>>,
   bound |-> {}]

\* the names of session s after an assignment
Bind(s, name, value) ==
  [loc EXCEPT ![s] = [[@ EXCEPT !.bound = @ \cup {name}] EXCEPT ![name] = value]]

\* the process starts with the repository's weights in place, or with none
Init ==
  /\ weights \in {{}, {1, 2, 3}}
  /\ cache = NoDetector
  /\ lock = 0
  /\ constructed = 0
  /\ clock = 0
  /\ runs = 0
  /\ files = {}
  /\ dirs = [t \in 0..MaxClock |-> [exists |-> FALSE, files |-> <<>>]]
  /\ pc = [s \in Sessions |-> "idle"]
  /\ status = [s \in Sessions |-> "none"]
  /\ req = [s \in Sessions |-> 0]
  /\ loc = [s \in Sessions |-> NoLocals]
  /\ rendered = [s \in Sessions |-> <<>>]
  /\ unlink = [s \in Sessions |-> "none"]

\* the page of session s with more items on it
Show(s, items) == rendered' = [rendered EXCEPT ![s] = @ \o items]

\* session s goes on to the next statement
Goto(s, label) ==
  /\ pc' = [pc EXCEPT ![s] = label]
  /\ UNCHANGED status

\* the run of session s ends: the script's names go with it, the page stays
EndRun(s, how) ==
  /\ pc' = [pc EXCEPT ![s] = "idle"]
  /\ status' = [status EXCEPT ![s] = how]
  /\ loc' = [loc EXCEPT ![s] = NoLocals]

\* an exception no handler catches ends the run in Streamlit's error display
Raise(s) ==
  /\ EndRun(s, "error")
  /\ Show(s, <<Item("exception", "", "", 0)>>)

\* an interaction of session s re-executes the script from the top: the page
\* configuration, the title and the introduction
StartRun(s) ==
  /\ pc[s] = "idle"
  /\ runs < MaxRuns
  /\ runs' = runs + 1
  /\ req' = [req EXCEPT ![s] = runs + 1]
  /\ \E u \in UploadNames \cup {None} :
       loc' = [loc EXCEPT ![s] = [NoLocals EXCEPT !.uploaded_file = u,
                                                  !.bound = {"uploaded_file"}]]
  /\ rendered' = [rendered EXCEPT ![s] = <<Item("title", "", "PPE Detection App", 0)>>]
  /\ unlink' = [unlink EXCEPT ![s] = "none"]
  /\ status' = [status EXCEPT ![s] = "running"]
  /\ pc' = [pc EXCEPT ![s] = "load_model"]
  /\ UNCHANGED <<weights, cache, lock, constructed, clock, files, dirs>>

(***************************************************************************)
(* load_model behind @st.cache_resource.                                   *)
(***************************************************************************)
\* whether the cache holds load_model's value
CacheHitNever(c) == FALSE
CacheHit(c) == c # NoDetector

\* next((str(p) for p in candidates if p.exists()), None); 0 stands for None
RECURSIVE LastOf(_, _)
LastOf(cands, existing) ==
  IF cands = <<>> THEN 0
  ELSE LET later == LastOf(Tail(cands), existing)
       IN IF later # 0 THEN later
          ELSE IF Head(cands) \in existing THEN Head(cands) ELSE 0
RECURSIVE FirstOf(_, _)
FirstOf(cands, existing) ==
  IF cands = <<>> THEN 0
  ELSE IF Head(cands) \in existing THEN Head(cands)
  ELSE FirstOf(Tail(cands), existing)

\* if not weight: st.error(...); st.stop()
StopsNever(weight) == FALSE
Stops(weight) == weight = 0

\* the cached function is called: a hit returns the cached detector without
\* taking the lock
CacheRead(s) ==
  /\ pc[s] = "load_model"
  /\ IF CacheHit(cache)
     THEN /\ loc' = Bind(s, "model", cache)
          /\ Goto(s, "uploader")
     ELSE /\ Goto(s, "lock")
          /\ UNCHANGED loc
  /\ UNCHANGED <<shared, req, rendered, unlink>>

\* a miss waits for the cache's compute lock
CacheLock(s) ==
  /\ pc[s] = "lock"
  /\ lock = 0
  /\ lock' = s
  /\ Goto(s, "compute")
  /\ UNCHANGED <<weights, cache, constructed, clock, runs, files, dirs, req, loc,
                 rendered, unlink>>

\* under the lock the cache is read again, and on a second miss the body of
\* load_model runs: it stops the run when no candidate exists, and otherwise
\* builds the detector, which is cached and returned, unless torch.hub.load
\* raises
CacheCompute(s) ==
  /\ pc[s] = "compute"
  /\ lock' = 0
  /\ IF CacheHit(cache)
     THEN /\ loc' = Bind(s, "model", cache)
          /\ Goto(s, "uploader")
          /\ UNCHANGED <<cache, constructed, rendered>>
     ELSE LET weight == FirstOf(Candidates, weights)
          IN IF Stops(weight)
             THEN /\ Show(s, <<Item("error", "", "No weights found.", 0)>>)
                  /\ EndRun(s, "stopped")
                  /\ UNCHANGED <<cache, constructed>>
             ELSE \/ /\ constructed' = constructed + 1
                     /\ cache' = [id |-> constructed + 1, weight |-> weight]
                     /\ loc' = Bind(s, "model", cache')
                     /\ Goto(s, "uploader")
                     /\ UNCHANGED rendered
                  \/ /\ Raise(s)
                     /\ UNCHANGED <<cache, constructed>>
  /\ UNCHANGED <<weights, clock, runs, files, dirs, req, unlink>>

(***************************************************************************)
(* The app: upload, scratch files, detection, page, cleanup.               *)
(***************************************************************************)
\* the file, if any, at a path of /tmp
At(path) == {f \in files : f.path = path}

\* st.file_uploader; without an upload the script is over
Uploader(s) ==
  /\ pc[s] = "uploader"
  /\ IF loc[s].uploaded_file = None
     THEN EndRun(s, "done")
     ELSE /\ Goto(s, "save_input")
          /\ UNCHANGED loc
  /\ UNCHANGED <<shared, req, rendered, unlink>>

\* int(time.time()): the seconds do not go back
Time == clock..MaxClock

\* the image is opened, converted and saved as /tmp/temp_<seconds>_<name>,
\* then shown with the "Detecting..." line; opening or saving may raise
SaveInput(s) ==
  /\ pc[s] = "save_input"
  /\ \/ \E now \in Time :
        LET path == [t |-> now, name |-> loc[s].uploaded_file]
        IN /\ clock' = now
           /\ loc' = Bind(s, "img_path", path)
           /\ files' = (files \ At(path)) \cup {[path |-> path, owner |-> req[s]]}
           /\ Show(s, <<Item("image", "", "Uploaded Image", 0),
                        Item("write", "", "Detecting...", 0)>>)
           /\ Goto(s, "mkdir")
     \/ /\ Raise(s)
        /\ UNCHANGED <<files, clock>>
  /\ UNCHANGED <<weights, cache, lock, constructed, runs, dirs, req, unlink>>

\* results_dir = /tmp/detection_<seconds>; mkdir(parents=True, exist_ok=True)
MkDir(s) ==
  /\ pc[s] = "mkdir"
  /\ \E now \in Time :
       /\ clock' = now
       /\ loc' = Bind(s, "results_dir", now)
       /\ dirs' = [dirs EXCEPT ![now].exists = TRUE]
  /\ Goto(s, "detect")
  /\ UNCHANGED <<weights, cache, lock, constructed, runs, files, req, rendered, unlink>>

\* results = model(str(img_path)): the detector reads the file and returns a
\* Detection Set, or raises (always when the file is gone)
Detect(s) ==
  /\ pc[s] = "detect"
  /\ \/ /\ At(loc[s].img_path) # {}
        /\ \E rows \in DetectorOutputs : loc' = Bind(s, "results", rows)
        /\ Goto(s, "save")
        /\ UNCHANGED rendered
     \/ Raise(s)
  /\ UNCHANGED <<shared, req, unlink>>

\* the files of a directory after one is written: a file of the same name is
\* replaced, and the written file has the latest mtime
Written(old, f) == SelectSeq(old, LAMBDA g : g.path # f.path) \o <<f>>

\* results.save(save_dir=str(results_dir)): the annotated image, named after
\* the input file, is written into the directory, or nothing is, or it raises
SaveAnnotated(s) ==
  /\ pc[s] = "save"
  /\ \/ /\ dirs' = [dirs EXCEPT ![loc[s].results_dir].files =
                      Written(@, [path |-> loc[s].img_path, owner |-> req[s]])]
        /\ Goto(s, "latest")
        /\ UNCHANGED <<loc, rendered>>
     \/ /\ Goto(s, "latest")
        /\ UNCHANGED <<dirs, loc, rendered>>
     \/ /\ Raise(s)
        /\ UNCHANGED dirs
  /\ UNCHANGED <<weights, cache, lock, constructed, clock, runs, files, req, unlink>>

\* sorted(..., key=mtime, reverse=True)[0], or None for an empty directory
Latest(fs) == IF fs = <<>> THEN NoFile ELSE fs[Len(fs)]

\* the latest file of results_dir is shown as the detection result, if any
PickLatest(s) ==
  /\ pc[s] = "latest"
  /\ LET path == Latest(dirs[loc[s].results_dir].files)
     IN /\ loc' = Bind(s, "detected_img_path", path)
        /\ Show(s, IF path # NoFile
                   THEN <<Item("image", "", "Detection Results", 0)>>
                   ELSE <<>>)
  /\ Goto(s, "extract")
  /\ UNCHANGED <<shared, req, unlink>>

\* detected_objects = results.pandas().xyxy[0], which may raise
Extract(s) ==
  /\ pc[s] = "extract"
  /\ \/ /\ loc' = Bind(s, "detected_objects", loc[s].results)
        /\ Goto(s, "render")
        /\ UNCHANGED rendered
     \/ Raise(s)
  /\ UNCHANGED <<shared, req, unlink>>

\* the if / else on len(detected_objects): the warning, or the sections and
\* the summary
Render(s) ==
  /\ pc[s] = "render"
  /\ \E order \in Orders(NamesOf(loc[s].detected_objects)) :
       LET rows == loc[s].detected_objects
           secs == IF IsEmpty(rows) THEN EmptySections
                   ELSE FillSections(rows, EmptySections)
           cnts == IF IsEmpty(rows) THEN <<>> ELSE ValueCounts(rows, order)
       IN /\ loc' = IF IsEmpty(rows) THEN loc
                    ELSE [loc EXCEPT ![s].sections = secs, ![s].counts = cnts,
                                     ![s].bound = @ \cup {"sections", "counts"}]
          /\ Show(s, Details(rows, secs, cnts))
  /\ Goto(s, "cleanup")
  /\ UNCHANGED <<shared, req, unlink>>

\* except Exception: pass: whether the handler swallows what unlink raised
SwallowsNothing(raised) == ~raised
Swallows(raised) == TRUE

\* try: img_path.unlink(missing_ok=True) / except Exception: pass
Cleanup(s) ==
  /\ pc[s] = "cleanup"
  /\ \/ /\ files' = files \ At(loc[s].img_path)
        /\ unlink' = [unlink EXCEPT ![s] = "ok"]
        /\ Goto(s, "end")
        /\ UNCHANGED <<loc, rendered>>
     \/ /\ UNCHANGED files
        /\ unlink' = [unlink EXCEPT ![s] = "failed"]
        /\ IF Swallows(TRUE)
           THEN /\ Goto(s, "end")
                /\ UNCHANGED <<loc, rendered>>
           ELSE Raise(s)
  /\ UNCHANGED <<weights, cache, lock, constructed, clock, runs, dirs, req>>

\* the script has run to its end
Finish(s) ==
  /\ pc[s] = "end"
  /\ EndRun(s, "done")
  /\ UNCHANGED <<shared, req, rendered, unlink>>

\* the operator adds a weights file, as the error message asks; once the
\* detector is cached the candidates are not read again
AddWeights ==
  /\ \E s \in Sessions : status[s] = "stopped"
  /\ cache = NoDetector
  /\ \E i \in {1, 2, 3} \ weights : weights' = weights \cup {i}
  /\ UNCHANGED <<cache, lock, constructed, clock, runs, files, dirs, pc, status, req,
                 loc, rendered, unlink>>

Next ==
  \/ \E s \in Sessions :
       \/ StartRun(s)
       \/ CacheRead(s)
       \/ CacheLock(s)
       \/ CacheCompute(s)
       \/ Uploader(s)
       \/ SaveInput(s)
       \/ MkDir(s)
       \/ Detect(s)
       \/ SaveAnnotated(s)
       \/ PickLatest(s)
       \/ Extract(s)
       \/ Render(s)
       \/ Cleanup(s)
       \/ Finish(s)
  \/ AddWeights

Spec == Init /\ [][Next]_vars

(***************************************************************************)
(* The formatter alone: a run that stands before the if / else on          *)
(* detected_objects, with a Detection Set over the whole label vocabulary  *)
(* or a longer one over a few labels.                                      *)
(***************************************************************************)
SummaryLabels == {"Hardhat", "NO-Mask", "Person"}
FormatInputs ==
  DetectionSets(Labels, Confidences, MaxRows)
    \cup DetectionSets(SummaryLabels, {8712}, MaxSummaryRows)

InitFormat ==
  LET path == [t |-> 0, name |-> "a.jpg"]
      file == [path |-> path, owner |-> 1]
      detector == [id |-> 1, weight |-> 1]
  IN /\ weights = {1}
     /\ cache = detector
     /\ lock = 0
     /\ constructed = 1
     /\ clock = 0
     /\ runs = 1
     /\ files = {file}
     /\ dirs = [t \in 0..MaxClock |->
                  IF t = 0 THEN [exists |-> TRUE, files |-> <<file>>]
                  ELSE [exists |-> FALSE, files |-> <<>>]]
     /\ pc = [s \in Sessions |-> IF s = 1 THEN "render" ELSE "idle"]
     /\ status = [s \in Sessions |-> IF s = 1 THEN "running" ELSE "none"]
     /\ req = [s \in Sessions |-> IF s = 1 THEN 1 ELSE 0]
     /\ \E rows \in FormatInputs :
          loc = [s \in Sessions |->
                   IF s = 1
                   THEN [NoLocals EXCEPT
                           !.model = detector, !.uploaded_file = "a.jpg",
                           !.img_path = path, !.results_dir = 0, !.results = rows,
                           !.detected_img_path = file, !.detected_objects = rows,
                           !.bound = {"uploaded_file", "model", "img_path",
                                      "results_dir", "results", "detected_img_path",
                                      "detected_objects"}]
                   ELSE NoLocals]
     /\ rendered = [s \in Sessions |->
                      IF s = 1
                      THEN <<Item("title", "", "PPE Detection App", 0),
                             Item("image", "", "Uploaded Image", 0),
                             Item("write", "", "Detecting...", 0),
                             Item("image", "", "Detection Results", 0)>>
                      ELSE <<>>]
     /\ unlink = [s \in Sessions |-> "none"]

NextFormat == \E s \in Sessions : Render(s) \/ Cleanup(s) \/ Finish(s)

SpecFormat == InitFormat /\ [][NextFormat]_vars

(***************************************************************************)
(* Properties.                                                             *)
(***************************************************************************)
\* the sessions whose run has passed the if / else on detected_objects
Rendered(s) == pc[s] \in {"cleanup", "end"}

\* the rows of a sequence that satisfy a test on the label
RowsWhere(rows, Test(_)) == SelectSeq(rows, LAMBDA r : Test(r.name))

\* the labels of the vocabulary that begin with "NO-"
NoLabels == {"NO-Hardhat", "NO-Mask", "NO-Safety Vest", "NO-Gloves"}
EquipmentLabels == {"Hardhat", "Mask", "Safety Vest"}

\* the spans of a sequence of rows
Texts(rows) == [i \in 1..Len(rows) |-> TextOf(rows[i])]

\* C1: for a non-empty Detection Set, Unsafe Conditions holds exactly the
\* texts of the rows whose label begins with "NO-", Safe Equipment exactly
\* those of the other rows labelled Hardhat, Mask or Safety Vest, and Other
\* Objects exactly those of the remaining rows, each in row order whatever the
\* confidence; the three buckets together hold as many texts as there are rows.
C1_Bucketing ==
  \A s \in Sessions :
    (Rendered(s) /\ loc[s].detected_objects # <<>>) =>
      LET rows == loc[s].detected_objects
          secs == loc[s].sections
      IN /\ secs[Unsafe] = Texts(RowsWhere(rows, LAMBDA l : l \in NoLabels))
         /\ secs[Safe] =
              Texts(RowsWhere(rows, LAMBDA l : l \notin NoLabels /\ l \in EquipmentLabels))
         /\ secs[Other] =
              Texts(RowsWhere(rows, LAMBDA l : l \notin NoLabels /\ l \notin EquipmentLabels))
         /\ Len(secs[Unsafe]) + Len(secs[Safe]) + Len(secs[Other]) = Len(rows)

\* C1 witness: two detections of "NO-Gloves" with different confidences, both
\* in Unsafe Conditions
C1_Witness ==
  \E s \in Sessions :
    /\ Rendered(s)
    /\ Len(loc[s].detected_objects) = 2
    /\ loc[s].detected_objects[1] = [name |-> "NO-Gloves", confidence |-> 8712]
    /\ loc[s].detected_objects[2] = [name |-> "NO-Gloves", confidence |-> 4239]
    /\ Len(loc[s].sections[Unsafe]) = 2
    /\ loc[s].sections[Unsafe][1].num = 87
    /\ loc[s].sections[Unsafe][2].num = 42

\* the documented color and bucket of the labels of the table
DocumentedColor(label) ==
  IF label \in {"Hardhat", "Mask", "Safety Vest"} THEN "green"
  ELSE IF label \in {"NO-Hardhat", "NO-Mask", "NO-Safety Vest"} THEN "red"
  ELSE "yellow"
DocumentedBucket(label) ==
  IF label \in {"Hardhat", "Mask", "Safety Vest"} THEN Safe
  ELSE IF label \in {"NO-Hardhat", "NO-Mask", "NO-Safety Vest"} THEN Unsafe
  ELSE Other

\* every row's text stands, in the color, in the bucket, and in no other
Assigned(s, Color(_), Bucket(_)) ==
  LET rows == loc[s].detected_objects
      secs == loc[s].sections
  IN \A i \in 1..Len(rows) :
       LET l == rows[i].name
       IN /\ \E j \in 1..Len(secs[Bucket(l)]) :
               /\ secs[Bucket(l)][j].label = l
               /\ secs[Bucket(l)][j].color = Color(l)
          /\ \A b \in {Safe, Other, Unsafe} : \A j \in 1..Len(secs[b]) :
               secs[b][j].label = l => (b = Bucket(l) /\ secs[b][j].color = Color(l))

\* C2 as stated: a label of the table gets the documented color and bucket,
\* and every label absent from the table gets white and Other Objects.
C2_AbsentIsOther ==
  \A s \in Sessions :
    Rendered(s) =>
      Assigned(s,
               LAMBDA l : IF l \in TableLabels THEN DocumentedColor(l) ELSE "white",
               LAMBDA l : IF l \in TableLabels THEN DocumentedBucket(l) ELSE Other)

\* C2 amended: a label of the table gets the documented color and bucket; a
\* label absent from the table gets white, and Other Objects unless it begins
\* with "NO-", when it gets Unsafe Conditions.
C2_AbsentIsOtherUnlessNo ==
  \A s \in Sessions :
    Rendered(s) =>
      Assigned(s,
               LAMBDA l : IF l \in TableLabels THEN DocumentedColor(l) ELSE "white",
               LAMBDA l : IF l \in TableLabels THEN DocumentedBucket(l)
                          ELSE IF l \in NoLabels THEN Unsafe ELSE Other)

\* C2 witness: a label of the table and an absent label that begins with
\* "NO-" have been formatted, the absent one white in Unsafe Conditions
C2_Witness ==
  \E s \in Sessions :
    /\ Rendered(s)
    /\ Len(loc[s].detected_objects) = 2
    /\ loc[s].detected_objects[1].name = "Safety Cone"
    /\ loc[s].detected_objects[2].name = "NO-Gloves"
    /\ Len(loc[s].sections[Other]) = 1
    /\ loc[s].sections[Other][1].color = "yellow"
    /\ Len(loc[s].sections[Unsafe]) = 1
    /\ loc[s].sections[Unsafe][1].color = "white"

\* the summary lines on the page of session s: the last Len(counts) items
SummaryLines(s) ==
  SubSeq(rendered[s], Len(rendered[s]) - Len(loc[s].counts) + 1, Len(rendered[s]))

\* C8: for a non-empty Detection Set the summary has one line per distinct
\* label, each with the number of rows of that label (so the counts add up to
\* the number of rows), in non-increasing order of count, each in the color of
\* that label's detail lines, white for a label not in the table.
C8_Summary ==
  \A s \in Sessions :
    (Rendered(s) /\ loc[s].detected_objects # <<>>) =>
      LET rows == loc[s].detected_objects
          lines == SummaryLines(s)
          n == Cardinality({rows[i].name : i \in 1..Len(rows)})
          RECURSIVE Sum(_)
          Sum(k) == IF k = 0 THEN 0 ELSE lines[k].num + Sum(k - 1)
      IN /\ Len(lines) = n
         /\ Len(rendered[s]) > n
         /\ rendered[s][Len(rendered[s]) - n].kind = "subheader"
         /\ \A i \in 1..n : lines[i].kind = "summary"
         /\ {lines[i].label : i \in 1..n} = {rows[i].name : i \in 1..Len(rows)}
         /\ \A i \in 1..n :
              lines[i].num = Cardinality({k \in 1..Len(rows) : rows[k].name = lines[i].label})
         /\ Sum(n) = Len(rows)
         /\ \A i, j \in 1..n : i < j => lines[i].num >= lines[j].num
         /\ \A i \in 1..n :
              /\ \A b \in {Safe, Other, Unsafe} : \A j \in 1..Len(loc[s].sections[b]) :
                   loc[s].sections[b][j].label = lines[i].label
                     => loc[s].sections[b][j].color = lines[i].color
              /\ lines[i].label \notin TableLabels => lines[i].color = "white"

\* C8 witness: Hardhat three times, Person twice and NO-Mask once, met in
\* another order, are summarised as Hardhat 3, Person 2, NO-Mask 1
C8_Witness ==
  \E s \in Sessions :
    /\ Rendered(s)
    /\ Len(loc[s].detected_objects) = 6
    /\ loc[s].detected_objects[1].name = "NO-Mask"
    /\ loc[s].detected_objects[2].name = "Person"
    /\ Len(SummaryLines(s)) = 3
    /\ SummaryLines(s)[1] = Item("summary", "green", "Hardhat", 3)
    /\ SummaryLines(s)[2] = Item("summary", "yellow", "Person", 2)
    /\ SummaryLines(s)[3] = Item("summary", "red", "NO-Mask", 1)

\* the kinds of the items a page holds
Kinds(s) == {rendered[s][i].kind : i \in 1..Len(rendered[s])}

\* the scratch files and annotated images written by a run
InputsOf(r) == {f \in files : f.owner = r}
OutputsOf(r) ==
  {t \in DOMAIN dirs : \E i \in 1..Len(dirs[t].files) : dirs[t].files[i].owner = r}

\* C3: over all re-executions and interleavings of the sessions at most one
\* detector is ever built, and whenever load_model has returned a detector to
\* a run, it is that one detector, which the cache holds.
C3_ConstructedOnce ==
  /\ constructed <= 1
  /\ cache # NoDetector => (constructed = 1 /\ cache.id = 1)
  /\ \A s \in Sessions :
       "model" \in loc[s].bound => (cache # NoDetector /\ loc[s].model = cache)

\* C3 witness: the run that built the detector and a later run of the other
\* session both hold the one detector
C3_Witness ==
  \E s, t \in Sessions :
    /\ s # t
    /\ req[s] < req[t]
    /\ "model" \in loc[s].bound
    /\ "model" \in loc[t].bound
    /\ loc[s].model = loc[t].model
    /\ constructed = 1

\* C4: while none of the three candidates exists, no detector is built or
\* cached, no run gets past load_model (none reaches the upload control, the
\* detector or the rendering of detections) and no scratch file or directory
\* exists; a run that load_model stopped shows the title and the error message
\* and nothing else, and has written no scratch file and no annotated image.
C4_NoWeightsHalts ==
  /\ weights = {} =>
       /\ cache = NoDetector
       /\ constructed = 0
       /\ files = {}
       /\ \A t \in DOMAIN dirs : ~dirs[t].exists
       /\ \A s \in Sessions :
            /\ pc[s] \in {"idle", "load_model", "lock", "compute"}
            /\ status[s] \in {"none", "running", "stopped"}
            /\ loc[s].bound \subseteq {"uploaded_file"}
  /\ \A s \in Sessions :
       status[s] = "stopped" =>
         /\ pc[s] = "idle"
         /\ rendered[s] = <<Item("title", "", "PPE Detection App", 0),
                            Item("error", "", "No weights found.", 0)>>
         /\ unlink[s] = "none"
         /\ InputsOf(req[s]) = {}
         /\ OutputsOf(req[s]) = {}

\* C4 witness: a run with an upload has been stopped for want of weights
C4_Witness ==
  \E s \in Sessions :
    /\ weights = {}
    /\ status[s] = "stopped"
    /\ Len(rendered[s]) = 2

\* C5: whenever a detector is built, it is built from the candidate that
\* exists and stands first in the order weights/best.pt, best.pt, yolov5s.pt:
\* no candidate before it exists; and load_model stops a run only when no
\* candidate exists.
C5_FirstExisting ==
  [][/\ constructed' # constructed =>
          /\ cache'.weight \in weights
          /\ \A i \in 1..Len(Candidates) :
               Candidates[i] = cache'.weight =>
                 \A j \in 1..(i - 1) : Candidates[j] \notin weights
     /\ \A s \in Sessions :
          (status'[s] = "stopped" /\ status[s] # "stopped") => weights = {}]_vars

\* C5 witness: with best.pt and yolov5s.pt on disk and weights/best.pt
\* missing, the detector was built from best.pt
C5_Witness ==
  /\ weights = {2, 3}
  /\ cache = [id |-> 1, weight |-> 2]

\* C6: the deletion of the input scratch file is attempted only by a run that
\* has extracted the Detection Set and chosen the annotated-image path; whether
\* it succeeds or fails, the run goes on to its end without an error, and the
\* Detection Set, the annotated-image path and the page are as before.
C6_CleanupIsolated ==
  [][\A s \in Sessions :
       /\ unlink'[s] # unlink[s] /\ unlink'[s] # "none" =>
            /\ pc[s] = "cleanup"
            /\ {"detected_objects", "detected_img_path"} \subseteq loc[s].bound
       /\ pc[s] = "cleanup" /\ pc'[s] # "cleanup" =>
            /\ unlink'[s] \in {"ok", "failed"}
            /\ pc'[s] = "end"
            /\ status'[s] = "running"
            /\ loc'[s] = loc[s]
            /\ rendered'[s] = rendered[s]
       /\ pc[s] = "end" /\ pc'[s] # "end" => status'[s] = "done"]_vars

\* C6 witness: the deletion failed, the file is still there, the run stands
\* at its end with its three detections and the annotated image
C6_Witness ==
  \E s \in Sessions :
    /\ pc[s] = "end"
    /\ unlink[s] = "failed"
    /\ InputsOf(req[s]) # {}
    /\ Len(loc[s].detected_objects) = 3
    /\ loc[s].detected_img_path # NoFile
    /\ "summary" \in Kinds(s)

\* C7: any two requests in progress have different output directories, and
\* the directory of a request holds no file when the detector result is about
\* to be saved into it.
C7_FreshDirectory ==
  /\ \A s, t \in Sessions :
       (s # t /\ "results_dir" \in loc[s].bound /\ "results_dir" \in loc[t].bound)
         => loc[s].results_dir # loc[t].results_dir
  /\ \A s \in Sessions :
       pc[s] = "save" => dirs[loc[s].results_dir].files = <<>>

\* C9: a run whose Detection Set is empty shows the "no objects detected"
\* notice as its only detection output (no subheader, bucket heading,
\* detection line, rule or summary line), attempts the cleanup and ends
\* normally.
C9_EmptyIsNormal ==
  \A s \in Sessions :
    /\ (Rendered(s) /\ loc[s].detected_objects = <<>>) =>
         /\ rendered[s][Len(rendered[s])] = Item("warning", "", "No objects detected.", 0)
         /\ Kinds(s) \subseteq {"title", "image", "write", "warning"}
         /\ Cardinality({i \in 1..Len(rendered[s]) : rendered[s][i].kind = "warning"}) = 1
         /\ status[s] = "running"
         /\ pc[s] = "end" => unlink[s] \in {"ok", "failed"}
    /\ "warning" \in Kinds(s) =>
         /\ Kinds(s) \subseteq {"title", "image", "write", "warning"}
         /\ pc[s] = "idle" => (status[s] = "done" /\ unlink[s] \in {"ok", "failed"})

\* C9 witness: a run with an empty Detection Set has ended normally, the
\* notice on its page and its input scratch file deleted
C9_Witness ==
  \E s \in Sessions :
    /\ pc[s] = "idle"
    /\ status[s] = "done"
    /\ "warning" \in Kinds(s)
    /\ unlink[s] = "ok"
    /\ InputsOf(req[s]) = {}

\* C10: a finished run has left no input scratch file of its own behind,
\* however it ended, unless its deletion of the file failed.
C10_InputDeleted ==
  \A s \in Sessions :
    (pc[s] = "idle" /\ unlink[s] # "failed") => InputsOf(req[s]) = {}

=============================================================================
